---- MODULE Spec2Model ----
(***************************************************************************)
(* A model of the JCL utility scanner of automationaccelerator             *)
(* (src/automationaccelerator/modules/jcl_utilscan.py): the symbolic       *)
(* parameter resolver, the per-file step extractor run by each worker      *)
(* thread, and process_files, which fills the queue, starts the workers    *)
(* and joins them.                                                         *)
(*                                                                         *)
(* A JCL line is a record naming which of the scanner's regular            *)
(* expressions it matches and the groups they capture.  Files of the PROC  *)
(* libraries and of CNTLLIB are records with a state ("missing", "ok",     *)
(* "bad": open() or read() raises) and their content.                      *)
(***************************************************************************)
EXTENDS Integers, Sequences, FiniteSets, Bags, TLC

VARIABLES
    \* the file system the scanner reads
    proc_fs,        \* PROC library path -> PROC name -> file
    cntl_fs,        \* the members of the CNTLLIB directory, in os.walk order
    jcl_dir,        \* the files under the JCL directory, in os.walk order
    log_writable,   \* whether utilitysearch.log can be created and appended to
    \* one call of resolve_symbolic_parameter
    r_param, r_jcl, r_libs, r_cntl, r_pc, r_result,
    \* the module's globals
    file_queue,     \* the tasks queued and not yet taken
    extracted_data, \* the tuples appended by the workers
    lock,           \* 0, or the worker holding the lock
    log,            \* utilitysearch.log: the bag of messages written since the
                    \* current call began
    \* process_files
    phase,          \* "idle", "start" (starting threads), "join", "report"
    calls,          \* the number of calls of process_files made
    config,         \* the directories and num_threads of the last call that
                    \* passed validation
    threads,        \* the number of worker threads started by the current call
    outcome,        \* how the last call ended
    \* the worker threads (extract_steps_from_file), by thread number
    pc, w_task, w_lines, w_i, w_last_step_end, w_pending,
    \* history: what the scan has done, for the statement of the properties
    enqueued,       \* the tasks put on the queue by the current call
    taken,          \* the bag of the files dequeued by the current call
    finished,       \* the files whose processing has ended, with how
    prev_scan       \* the last completed scan of an earlier call: its thread-pool
                    \* size (-1: none yet) and the bag of its records

rvars == <<r_param, r_jcl, r_libs, r_cntl, r_pc, r_result>>
fsvars == <<proc_fs, cntl_fs, jcl_dir, log_writable>>
gvars == <<file_queue, extracted_data, lock, log>>
mvars == <<phase, calls, config, threads, outcome>>
wvars == <<pc, w_task, w_lines, w_i, w_last_step_end, w_pending>>
hvars == <<enqueued, taken, finished, prev_scan>>
vars == <<fsvars, rvars, gvars, mvars, wvars, hvars>>

----------------------------------------------------------------------------
\* Bounds of the model.
MaxJclLines == 3
MaxFiles == 2
MaxThreads == 2
MaxCalls == 2

----------------------------------------------------------------------------
\* Strings and their conversions.

\* str.upper() on the strings of the model
Upper(s) ==
    CASE s = "p" -> "P"
      [] s = "q" -> "Q"
      [] s = "idcams" -> "IDCAMS"
      [] s = "iebgener" -> "IEBGENER"
      [] s = "myprog" -> "MYPROG"
      [] OTHER -> s

\* str.strip() on the strings of the model: " " is a value of white space only
Strip(s) ==
    IF s = " " THEN "" ELSE s

\* The results of a call: a returned value, None, or a raised exception; `at` is
\* the line of jcl_utilscan.py whose return statement (or unguarded open) ended it.
Ret(v, at) == [st |-> "value", v |-> v, at |-> at]
RetNone == [st |-> "none", v |-> "", at |-> 131]
Raise(at) == [st |-> "raise", v |-> "", at |-> at]

----------------------------------------------------------------------------
\* JCL lines.

NoOvr == [p |-> "", v |-> ""]

\* //name EXEC [PGM=]tok[,p=v]; sym: the program token is &tok
ExecLine(name, pgmkw, sym, tok, ovr) ==
    [kind |-> "exec", name |-> name, pgmkw |-> pgmkw, sym |-> sym, tok |-> tok,
     ovr |-> ovr, val |-> ""]

\* // SET name=val
SetLine(name, val) ==
    [kind |-> "set", name |-> name, pgmkw |-> FALSE, sym |-> FALSE, tok |-> "",
     ovr |-> NoOvr, val |-> val]

\* // INCLUDE MEMBER=name
IncludeLine(name) ==
    [kind |-> "include", name |-> name, pgmkw |-> FALSE, sym |-> FALSE, tok |-> "",
     ovr |-> NoOvr, val |-> ""]

\* any other line: "comment" (//*...), "blank", "dd" (//name DD ...),
\* "sysin_star" (//SYSIN DD *), "sysin_dsn" (//SYSIN DD DSN=x(name), or
\* //SYSIN DD DSN=x with no member when name is ""), "data",
\* "cexec" (//* EXEC tok...), "cstep" (//*name EXEC PGM=tok)
OtherLine(kind, name, tok) ==
    [kind |-> kind, name |-> name, pgmkw |-> (kind = "cstep"), sym |-> FALSE,
     tok |-> tok, ovr |-> NoOvr, val |-> ""]

----------------------------------------------------------------------------
\* Files of the PROC libraries and of CNTLLIB.

MissingFile == [st |-> "missing", lines |-> <<>>, text |-> ""]
BadFile == [st |-> "bad", lines |-> <<>>, text |-> ""]
\* a readable file: its lines as the name=value pair each carries (p = "" when
\* it carries none; isproc: the line is a //name PROC statement) and its whole text
OkFile(lines, text) == [st |-> "ok", lines |-> lines, text |-> text]
DefLine(isproc, p, v) == [isproc |-> isproc, p |-> p, v |-> v]

\* a member of the CNTLLIB directory
Member(name, ext, file) == [name |-> name, ext |-> ext, file |-> file]

\* os.path.exists(os.path.join(proc_lib, proc_name + ".proc")) and the file there
ProcFile(proc_lib, proc_name) ==
    IF proc_lib \in DOMAIN proc_fs /\ proc_name \in DOMAIN proc_fs[proc_lib]
    THEN proc_fs[proc_lib][proc_name]
    ELSE MissingFile

\* os.path.join(cntllib_path, member + ".incl"): the member's file, if it exists
CntlFile(cntllib_path, member) ==
    LET hits == {k \in DOMAIN cntl_fs :
                    cntl_fs[k].name = member /\ cntl_fs[k].ext = "incl"}
    IN  IF cntllib_path = "CNTL" /\ hits # {}
        THEN cntl_fs[CHOOSE k \in hits : \A h \in hits : k <= h].file
        ELSE MissingFile

----------------------------------------------------------------------------
\* find_proc_content: the lines of the first <proc_name>.proc found in the
\* libraries, None if there is none; open() and readlines() are not guarded.
RECURSIVE FindProcFrom(_, _, _)
FindProcFrom(proc_name, proc_libraries, k) ==
    IF k > Len(proc_libraries) THEN RetNone
    ELSE LET f == ProcFile(proc_libraries[k], proc_name)
         IN  CASE f.st = "missing" -> FindProcFrom(proc_name, proc_libraries, k + 1)
               [] f.st = "bad" -> Raise(147)
               [] OTHER -> Ret(f.lines, 148)

find_proc_content(proc_name, proc_libraries) ==
    FindProcFrom(proc_name, proc_libraries, 1)

\* The first line of `lines` from index k on that carries param_name=value
\* (re.IGNORECASE), restricted to PROC statements when procOnly; 0 if none.
RECURSIVE FirstDef(_, _, _, _)
FirstDef(lines, param_name, procOnly, k) ==
    IF k > Len(lines) THEN 0
    ELSE IF /\ lines[k].p # ""
            /\ Upper(lines[k].p) = Upper(param_name)
            /\ (procOnly => lines[k].isproc)
         THEN k
         ELSE FirstDef(lines, param_name, procOnly, k + 1)

\* re.match(r"//\S+\s+EXEC\s+(\w+)", line): the word after EXEC, "" if the line
\* does not match.  "PGM" for EXEC PGM=..., nothing for EXEC &name.
ExecProcName(line) ==
    CASE line.kind = "exec" /\ line.pgmkw -> "PGM"
      [] line.kind = "exec" /\ ~line.sym -> line.tok
      [] line.kind = "cstep" -> "PGM"
      [] line.kind = "cexec" -> line.tok
      [] OTHER -> ""

\* re.search(rf"\b{param_name}\s*=\s*([^,\s]+)", line) on an EXEC line
ExecOverride(line, param_name) ==
    IF line.ovr.p # "" /\ Upper(line.ovr.p) = Upper(param_name)
    THEN line.ovr.v
    ELSE ""

\* Source 1: the first // SET line naming the parameter
FirstSet(jcl_content, param_name) ==
    LET hits == {i \in DOMAIN jcl_content :
                    /\ jcl_content[i].kind = "set"
                    /\ Upper(jcl_content[i].name) = Upper(param_name)}
    IN  IF hits = {} THEN 0 ELSE CHOOSE i \in hits : \A h \in hits : i <= h

\* Sources 2 and 3, one loop over the lines: at each PROC-invoking EXEC line
\* first the override on that line, then the default of that line's PROC.
RECURSIVE ResolveExec(_, _, _, _)
ResolveExec(param_name, jcl_content, proc_libraries, i) ==
    IF i > Len(jcl_content) THEN RetNone
    ELSE LET line == jcl_content[i]
             proc_name == ExecProcName(line)
             next == ResolveExec(param_name, jcl_content, proc_libraries, i + 1)
         IN  IF proc_name = "" THEN next
             ELSE IF ExecOverride(line, param_name) # ""
                  THEN Ret(ExecOverride(line, param_name), 79)
                  ELSE LET proc_content == find_proc_content(proc_name, proc_libraries)
                       IN  CASE proc_content.st = "raise" -> Raise(82)
                             [] proc_content.st = "none" -> next
                             [] OTHER ->
                                LET d == FirstDef(proc_content.v, param_name, TRUE, 1)
                                IN  IF d # 0 THEN Ret(proc_content.v[d].v, 89) ELSE next

\* Source 4: the members named by // INCLUDE MEMBER= lines, in line order;
\* open() and readlines() are not guarded.
RECURSIVE ResolveInclude(_, _, _, _)
ResolveInclude(param_name, jcl_content, cntllib_path, i) ==
    IF i > Len(jcl_content) THEN RetNone
    ELSE LET line == jcl_content[i]
             next == ResolveInclude(param_name, jcl_content, cntllib_path, i + 1)
         IN  IF line.kind # "include" \/ cntllib_path = "" THEN next
             ELSE LET f == CntlFile(cntllib_path, line.name)
                  IN  CASE f.st = "missing" -> next
                        [] f.st = "bad" -> Raise(100)
                        [] OTHER ->
                           LET d == FirstDef(f.lines, param_name, FALSE, 1)
                           IN  IF d # 0 THEN Ret(f.lines[d].v, 106) ELSE next

\* Source 6: every .incl file under CNTLLIB in os.walk order; a file that cannot
\* be read is skipped.
RECURSIVE ResolveGlobal(_, _)
ResolveGlobal(param_name, k) ==
    IF k > Len(cntl_fs) THEN RetNone
    ELSE LET m == cntl_fs[k]
             next == ResolveGlobal(param_name, k + 1)
         IN  IF m.ext # "incl" \/ m.file.st # "ok" THEN next
             ELSE LET d == FirstDef(m.file.lines, param_name, FALSE, 1)
                  IN  IF d # 0 THEN Ret(m.file.lines[d].v, 125) ELSE next

\* Sources 5 and 6: <cntllib_path>/<param_name>.incl read whole (not guarded),
\* then the search of all members.
ResolveCntllib(param_name, cntllib_path) ==
    IF cntllib_path = "" THEN RetNone
    ELSE LET f == CntlFile(cntllib_path, param_name)
         IN  CASE f.st = "ok" -> Ret(Strip(f.text), 114)
               [] f.st = "bad" -> Raise(113)
               [] OTHER -> ResolveGlobal(param_name, 1)

\* resolve_symbolic_parameter with the EXEC loop consulted before the SET lines
resolve_exec_before_set(param_name, jcl_content, proc_libraries, cntllib_path) ==
    LET s == FirstSet(jcl_content, param_name)
        e == ResolveExec(param_name, jcl_content, proc_libraries, 1)
        n == ResolveInclude(param_name, jcl_content, cntllib_path, 1)
    IN  IF e.st # "none" THEN e
        ELSE IF s # 0 THEN Ret(Strip(jcl_content[s].val), 67)
        ELSE IF n.st # "none" THEN n
        ELSE ResolveCntllib(param_name, cntllib_path)

resolve_symbolic_parameter(param_name, jcl_content, proc_libraries, cntllib_path) ==
    LET s == FirstSet(jcl_content, param_name)
        e == ResolveExec(param_name, jcl_content, proc_libraries, 1)
        n == ResolveInclude(param_name, jcl_content, cntllib_path, 1)
    IN  IF s # 0 THEN Ret(Strip(jcl_content[s].val), 67)
        ELSE IF e.st # "none" THEN e
        ELSE IF n.st # "none" THEN n
        ELSE ResolveCntllib(param_name, cntllib_path)

----------------------------------------------------------------------------
\* extract_steps_from_file: the scan of one file's lines.  As in the source,
\* i, j and last_step_end count lines from 0; At(lines, j) is lines[j].

At(lines, j) == lines[j + 1]

\* re.match(r"//\*\s*EXEC", line)
IsCommentExec(line) == line.kind = "cexec"

\* re.match(r"//(\S+)\s+EXEC\s+(?:PGM\s*=\s*)?(\b\w+\b|&\w+)", line): also a
\* commented-out step //*name EXEC PGM=tok, whose group 1 is "*name"
IsExecStep(line) == line.kind \in {"exec", "cstep"}

\* re.match(r"//\S+\s+EXEC\s+PGM=", line)
IsExecPgm(line) ==
    \/ line.kind = "exec" /\ line.pgmkw
    \/ line.kind = "cstep"
    \/ line.kind = "cexec" /\ line.tok = "PGM"

\* line.strip() == ""
IsBlank(line) == line.kind = "blank"

\* line.startswith("//*")
IsComment(line) == line.kind \in {"comment", "cexec", "cstep"}

\* line.startswith("//")
IsJclStatement(line) == line.kind \notin {"blank", "data"}

\* The backward scan from line j down to last_step_end: the //* lines met
\* before a blank line or an EXEC PGM= line, in file order.
RECURSIVE CommentBlock(_, _, _)
CommentBlock(lines, j, last_step_end) ==
    IF j < last_step_end THEN <<>>
    ELSE IF IsBlank(At(lines, j)) \/ IsExecPgm(At(lines, j)) THEN <<>>
    ELSE IF IsComment(At(lines, j))
         THEN Append(CommentBlock(lines, j - 1, last_step_end), At(lines, j))
         ELSE CommentBlock(lines, j - 1, last_step_end)

\* StepEnd stepping back from where the forward scan starts
StepEndBefore(lines, j) == j - 1

\* The forward scan from line j: where it stops (the next EXEC PGM= line, a
\* blank line or the end of the file)
RECURSIVE StepEnd(_, _)
StepEnd(lines, j) ==
    IF j < Len(lines) /\ ~IsExecPgm(At(lines, j)) /\ ~IsBlank(At(lines, j))
    THEN StepEnd(lines, j + 1)
    ELSE j

\* StepBlock without line 209: the block holds only what follows the EXEC line
StepBlockAfterExec(lines, i, j) ==
    SelectSeq(SubSeq(lines, i + 2, j), LAMBDA l : IsJclStatement(l))

\* The lines i..j-1 that start with "//": the EXEC line and what follows it
StepBlock(lines, i, j) ==
    <<At(lines, i)>> \o
    SelectSeq(SubSeq(lines, i + 2, j), LAMBDA l : IsJclStatement(l))

\* extract_control_card without the os.path.exists test: the open of a member
\* that does not exist raises and the except clause answers
extract_control_card_no_exists(cntllib_path, member) ==
    IF cntllib_path = "" \/ member = "" THEN "[No CNTLLIB path or member specified]"
    ELSE LET f == CntlFile(cntllib_path, member)
         IN  CASE f.st \in {"missing", "bad"} -> "[Error reading control card]"
               [] OTHER -> IF Strip(f.text) # "" THEN f.text
                           ELSE "[Control card file exists but is empty]"

\* extract_control_card: the member's content or a bracketed message
extract_control_card(cntllib_path, member) ==
    IF cntllib_path = "" \/ member = "" THEN "[No CNTLLIB path or member specified]"
    ELSE LET f == CntlFile(cntllib_path, member)
         IN  CASE f.st = "missing" -> "[Control card not found in CNTLLIB]"
               [] f.st = "bad" -> "[Error reading control card]"
               [] OTHER -> IF Strip(f.text) # "" THEN f.text
                           ELSE "[Control card file exists but is empty]"

\* FirstSysin without the break statements: the last such line decides
RECURSIVE LastSysin(_, _)
LastSysin(step_block, k) ==
    IF k > Len(step_block) THEN 0
    ELSE LET later == LastSysin(step_block, k + 1)
         IN  IF later # 0 THEN later
             ELSE IF step_block[k].kind \in {"sysin_star", "sysin_dsn"} THEN k
             ELSE 0

\* The first line of the step block that is a SYSIN DD * or SYSIN DD DSN= line;
\* 0 if there is none
RECURSIVE FirstSysin(_, _)
FirstSysin(step_block, k) ==
    IF k > Len(step_block) THEN 0
    ELSE IF step_block[k].kind \in {"sysin_star", "sysin_dsn"} THEN k
    ELSE FirstSysin(step_block, k + 1)

\* StepRecord with extract_control_card called whether or not the DSN names a
\* member
StepRecordAlwaysReads(file_path, file_type, lines, i, j, last_step_end, program_name, cntllib_path) ==
    LET step_block == StepBlock(lines, i, j)
        k == FirstSysin(step_block, 1)
        dsn == k # 0 /\ step_block[k].kind = "sysin_dsn"
        member == IF dsn THEN step_block[k].name ELSE ""
    IN  [ file |-> file_path,
          file_type |-> file_type,
          step_name |-> At(lines, i).name,
          step_block |-> step_block,
          program_name |-> program_name,
          sysin_type |-> IF k = 0 THEN "None"
                         ELSE IF dsn THEN "Control Card" ELSE "Inline SYSIN",
          sysin_statement |-> IF k = 0 THEN <<>> ELSE <<step_block[k]>>,
          control_card_member |-> member,
          control_card_content |-> extract_control_card(cntllib_path, member),
          comment_block |-> CommentBlock(lines, i - 1, last_step_end) ]

\* The tuple appended to extracted_data for the step at line i
StepRecord(file_path, file_type, lines, i, j, last_step_end, program_name, cntllib_path) ==
    LET step_block == StepBlock(lines, i, j)
        k == FirstSysin(step_block, 1)
        dsn == k # 0 /\ step_block[k].kind = "sysin_dsn"
        member == IF dsn THEN step_block[k].name ELSE ""
    IN  [ file |-> file_path,
          file_type |-> file_type,
          step_name |-> At(lines, i).name,
          step_block |-> step_block,
          program_name |-> program_name,
          sysin_type |-> IF k = 0 THEN "None"
                         ELSE IF dsn THEN "Control Card" ELSE "Inline SYSIN",
          sysin_statement |-> IF k = 0 THEN <<>> ELSE <<step_block[k]>>,
          control_card_member |-> member,
          control_card_content |->
              IF member # "" THEN extract_control_card(cntllib_path, member) ELSE "",
          comment_block |-> CommentBlock(lines, i - 1, last_step_end) ]

\* "continue", "raise" or "emit" for line i of the file
Outcome(act, rec, j, msg) == [act |-> act, rec |-> rec, j |-> j, msg |-> msg]
NoRec == <<>>

\* the membership test left out
IsUtilityAlways(program_name, utilities) == TRUE

\* if program_name in utilities
IsUtility(program_name, utilities) == program_name \in utilities

\* ScanLine without the .upper() of line 185: the resolved value is compared
\* with the utilities as the resolver returned it
ScanLineNoUpper(task, lines, i, last_step_end) ==
    LET line == At(lines, i)
        skip == Outcome("continue", NoRec, last_step_end, "")
        emit(program_name) ==
            IF IsUtility(program_name, task.utilities)
            THEN LET j == StepEnd(lines, i + 1)
                     rec == StepRecord(task.file_path, task.file_type, lines, i, j,
                                       last_step_end, program_name, task.cntllib_path)
                 IN  Outcome("emit", rec, j,
                             IF rec.control_card_content = "[Error reading control card]"
                             THEN "Error reading control card" ELSE "")
            ELSE skip
    IN  IF IsCommentExec(line) \/ ~IsExecStep(line) THEN skip
        ELSE IF ~line.sym THEN emit(Upper(line.tok))
        ELSE LET resolved_name ==
                    resolve_symbolic_parameter(Upper(line.tok), lines,
                                               task.proc_libraries, task.cntllib_path)
             IN  CASE resolved_name.st = "raise" -> Outcome("raise", NoRec, last_step_end, "")
                   [] resolved_name.st = "value" /\ resolved_name.v # "" ->
                        emit(resolved_name.v)
                   [] OTHER -> Outcome("continue", NoRec, last_step_end,
                                       "Unresolved symbolic parameter")

\* One iteration of the loop over the lines: what line i yields.
ScanLine(task, lines, i, last_step_end) ==
    LET line == At(lines, i)
        skip == Outcome("continue", NoRec, last_step_end, "")
        emit(program_name) ==
            IF IsUtility(program_name, task.utilities)
            THEN LET j == StepEnd(lines, i + 1)
                     rec == StepRecord(task.file_path, task.file_type, lines, i, j,
                                       last_step_end, program_name, task.cntllib_path)
                 IN  Outcome("emit", rec, j,
                             IF rec.control_card_content = "[Error reading control card]"
                             THEN "Error reading control card" ELSE "")
            ELSE skip
    IN  IF IsCommentExec(line) \/ ~IsExecStep(line) THEN skip
        ELSE IF ~line.sym THEN emit(Upper(line.tok))
        ELSE LET resolved_name ==
                    resolve_symbolic_parameter(Upper(line.tok), lines,
                                               task.proc_libraries, task.cntllib_path)
             IN  CASE resolved_name.st = "raise" -> Outcome("raise", NoRec, last_step_end, "")
                   [] resolved_name.st = "value" /\ resolved_name.v # "" ->
                        emit(Upper(resolved_name.v))
                   [] OTHER -> Outcome("continue", NoRec, last_step_end,
                                       "Unresolved symbolic parameter")

----------------------------------------------------------------------------
\* The scanner: the module's globals, process_files and the worker threads.

Workers == 1..MaxThreads

NoTask == [file_path |-> "", utilities |-> {}, file_type |-> "", cntllib_path |-> "",
           proc_libraries |-> <<>>]
NoConfig == [dirs |-> "ok", threads |-> 0]

\* How a call of process_files stands: not made yet, running, or ended by a
\* return (every path of the function ends so: the return statements of the
\* validation, and the end of the function after the try block or after the
\* except clause that encloses its whole body) with what it printed
NotCalled == [how |-> "none", printed |-> ""]
Running == [how |-> "running", printed |-> ""]
Returned(printed) == [how |-> "return", printed |-> printed]

\* config.get('performance', {}).get('threads', 4)
DefaultThreads == 4
ConfiguredThreads(cfg) == IF cfg.has_threads THEN cfg.threads ELSE DefaultThreads

\* The state of the module when it is imported and process_files is not running
IdleScanner ==
    /\ file_queue = <<>>
    /\ extracted_data = <<>>
    /\ lock = 0
    /\ log = EmptyBag
    /\ phase = "idle"
    /\ calls = 0
    /\ config = NoConfig
    /\ threads = 0
    /\ outcome = NotCalled
    /\ pc = [w \in Workers |-> "unstarted"]
    /\ w_task = [w \in Workers |-> NoTask]
    /\ w_lines = [w \in Workers |-> <<>>]
    /\ w_i = [w \in Workers |-> 0]
    /\ w_last_step_end = [w \in Workers |-> 0]
    /\ w_pending = [w \in Workers |-> NoRec]
    /\ enqueued = <<>>
    /\ taken = EmptyBag
    /\ finished = {}
    /\ prev_scan = [threads |-> -1, data |-> EmptyBag]

\* default_utils.union(custom_utils) of the configuration
Utilities == {"IDCAMS", "IEBGENER"}

\* log_error called once for each message of a bag with the log file left
\* unguarded: a write that fails raises, and the caller does not go on
log_errors_unguarded(messages) ==
    /\ (messages # EmptyBag) => log_writable
    /\ log' = log (+) messages

\* log_error called once for each message of a bag: each joins the log, or the
\* write fails and the exception is swallowed (except Exception: pass)
log_errors(messages) ==
    log' = IF log_writable THEN log (+) messages ELSE log

log_error(message) == log_errors(SetToBag({message}))

\* open(file_path): the file of the JCL directory
JclFile(file_path) ==
    LET hits == {k \in DOMAIN jcl_dir : jcl_dir[k].name = file_path}
    IN  jcl_dir[CHOOSE k \in hits : TRUE]

Min(a, b) == IF a <= b THEN a ELSE b

\* The tasks process_files puts on the queue: one per .jcl file of the walk
RECURSIVE WalkTasks(_)
WalkTasks(k) ==
    IF k > Len(jcl_dir) THEN <<>>
    ELSE IF jcl_dir[k].ext = "jcl"
         THEN <<[file_path |-> jcl_dir[k].name, utilities |-> Utilities,
                 file_type |-> "JCL", cntllib_path |-> "CNTL",
                 proc_libraries |-> <<"L1">>]>> \o WalkTasks(k + 1)
         ELSE WalkTasks(k + 1)

\* range(num_threads): the length of the queue left out
NumThreadsIgnoreQueue(num_threads, qsize) ==
    IF num_threads < 0 THEN 0 ELSE Min(num_threads, MaxThreads)

\* range(min(num_threads, file_queue.qsize()))
NumThreads(num_threads, qsize) ==
    IF Min(num_threads, qsize) < 0 THEN 0 ELSE Min(num_threads, qsize)

\* Call without "Clear previous data": extracted_data keeps the earlier tuples
CallKeepData(cfg) ==
    /\ phase = "idle"
    /\ calls < MaxCalls
    /\ calls' = calls + 1
    /\ IF cfg.dirs # "ok"
       THEN /\ outcome' = Returned("directory not found")
            /\ UNCHANGED <<phase, config, threads, gvars, wvars, hvars>>
       ELSE /\ config' = [dirs |-> cfg.dirs, threads |-> ConfiguredThreads(cfg)]
            /\ file_queue' = WalkTasks(1)
            /\ enqueued' = WalkTasks(1)
            /\ taken' = EmptyBag
            /\ finished' = {}
            /\ log' = EmptyBag
            /\ threads' = 0
            /\ phase' = "start"
            /\ outcome' = Running
            /\ pc' = [w \in Workers |-> "unstarted"]
            /\ UNCHANGED <<extracted_data, lock, w_task, w_lines, w_i, w_last_step_end,
                           w_pending, prev_scan>>
    /\ UNCHANGED <<fsvars, rvars>>

\* Call with "Clear previous data" and the new Queue() moved above the
\* validation of the directories
CallResetFirst(cfg) ==
    /\ phase = "idle"
    /\ calls < MaxCalls
    /\ calls' = calls + 1
    /\ IF cfg.dirs # "ok"
       THEN /\ outcome' = Returned("directory not found")
            /\ extracted_data' = <<>>
            /\ file_queue' = <<>>
            /\ UNCHANGED <<phase, config, threads, lock, log, wvars, hvars>>
       ELSE /\ config' = [dirs |-> cfg.dirs, threads |-> ConfiguredThreads(cfg)]
            /\ extracted_data' = <<>>
            /\ file_queue' = WalkTasks(1)
            /\ enqueued' = WalkTasks(1)
            /\ taken' = EmptyBag
            /\ finished' = {}
            /\ log' = EmptyBag
            /\ threads' = 0
            /\ phase' = "start"
            /\ outcome' = Running
            /\ pc' = [w \in Workers |-> "unstarted"]
            /\ UNCHANGED <<lock, w_task, w_lines, w_i, w_last_step_end, w_pending, prev_scan>>
    /\ UNCHANGED <<fsvars, rvars>>

\* Call with the queue filled before the directories are validated
CallEnqueueFirst(cfg) ==
    /\ phase = "idle"
    /\ calls < MaxCalls
    /\ calls' = calls + 1
    /\ IF cfg.dirs # "ok"
       THEN /\ outcome' = Returned("directory not found")
            /\ file_queue' = WalkTasks(1)
            /\ enqueued' = WalkTasks(1)
            /\ UNCHANGED <<phase, config, threads, extracted_data, lock, log, wvars,
                           taken, finished, prev_scan>>
       ELSE /\ config' = [dirs |-> cfg.dirs, threads |-> ConfiguredThreads(cfg)]
            /\ extracted_data' = <<>>
            /\ file_queue' = WalkTasks(1)
            /\ enqueued' = WalkTasks(1)
            /\ taken' = EmptyBag
            /\ finished' = {}
            /\ log' = EmptyBag
            /\ threads' = 0
            /\ phase' = "start"
            /\ outcome' = Running
            /\ pc' = [w \in Workers |-> "unstarted"]
            /\ UNCHANGED <<lock, w_task, w_lines, w_i, w_last_step_end, w_pending, prev_scan>>
    /\ UNCHANGED <<fsvars, rvars>>

\* process_files up to the start of the threads: a missing directory is
\* reported and the call returns; otherwise the globals are reset and every
\* .jcl file is queued.
Call(cfg) ==
    /\ phase = "idle"
    /\ calls < MaxCalls
    /\ calls' = calls + 1
    /\ IF cfg.dirs # "ok"
       THEN /\ outcome' = Returned("directory not found")
            /\ UNCHANGED <<phase, config, threads, gvars, wvars, hvars>>
       ELSE /\ config' = [dirs |-> cfg.dirs, threads |-> ConfiguredThreads(cfg)]
            /\ extracted_data' = <<>>
            /\ file_queue' = WalkTasks(1)
            /\ enqueued' = WalkTasks(1)
            /\ taken' = EmptyBag
            /\ finished' = {}
            /\ log' = EmptyBag
            /\ threads' = 0
            /\ phase' = "start"
            /\ outcome' = Running
            /\ pc' = [w \in Workers |-> "unstarted"]
            /\ UNCHANGED <<lock, w_task, w_lines, w_i, w_last_step_end, w_pending, prev_scan>>
    /\ UNCHANGED <<fsvars, rvars>>

\* StartThread with a file put on the queue after the thread is started
StartThreadEnqueues ==
    /\ phase = "start"
    /\ threads < NumThreads(config.threads, Len(enqueued))
    /\ threads' = threads + 1
    /\ pc' = [pc EXCEPT ![threads + 1] = "test"]
    /\ file_queue' = Append(file_queue, enqueued[1])
    /\ UNCHANGED <<fsvars, rvars, extracted_data, lock, log, hvars, phase, calls, config,
                   outcome, w_task, w_lines, w_i, w_last_step_end, w_pending>>

\* thread.start() of the next worker
StartThread ==
    /\ phase = "start"
    /\ threads < NumThreads(config.threads, Len(enqueued))
    /\ threads' = threads + 1
    /\ pc' = [pc EXCEPT ![threads + 1] = "test"]
    /\ UNCHANGED <<fsvars, rvars, gvars, hvars, phase, calls, config, outcome,
                   w_task, w_lines, w_i, w_last_step_end, w_pending>>

\* the loop starting the threads ends
StartDone ==
    /\ phase = "start"
    /\ threads = NumThreads(config.threads, Len(enqueued))
    /\ phase' = "join"
    /\ UNCHANGED <<fsvars, rvars, gvars, hvars, wvars, calls, config, threads, outcome>>

\* the tuples of a collection as a bag: each with the number of times it occurs
BagOfData(data) ==
    [r \in {data[k] : k \in DOMAIN data} |->
        Cardinality({k \in DOMAIN data : data[k] = r})]

\* thread.join() has returned for every thread started
JoinAll ==
    /\ phase = "join"
    /\ \A w \in 1..threads : pc[w] = "done"
    /\ phase' = "report"
    /\ UNCHANGED <<fsvars, rvars, gvars, wvars, hvars, calls, config, threads, outcome>>

\* Report with a failure that empties the collection
ReportClears(ok) ==
    /\ phase = "report"
    /\ phase' = "idle"
    /\ outcome' = IF ok THEN Returned("Processing complete") ELSE Returned("report error")
    /\ IF ok THEN UNCHANGED <<log, extracted_data>>
       ELSE /\ log_error(<<"An error occurred during Excel writing or final summary", "">>)
            /\ extracted_data' = <<>>
    /\ prev_scan' = [threads |-> config.threads, data |-> BagOfData(extracted_data)]
    /\ UNCHANGED <<fsvars, rvars, file_queue, lock, wvars, calls, config, threads,
                   enqueued, taken, finished>>

\* the reports are written from extracted_data, or writing them raises and the
\* failure is printed and logged; process_files returns
Report(ok) ==
    /\ phase = "report"
    /\ phase' = "idle"
    /\ outcome' = IF ok THEN Returned("Processing complete") ELSE Returned("report error")
    /\ IF ok THEN UNCHANGED log
       ELSE log_error(<<"An error occurred during Excel writing or final summary", "">>)
    /\ prev_scan' = [threads |-> config.threads, data |-> BagOfData(extracted_data)]
    /\ UNCHANGED <<fsvars, rvars, file_queue, extracted_data, lock, wvars, calls, config,
                   threads, enqueued, taken, finished>>

\* TestEmpty as an if: a thread that has processed a task returns
TestEmptyOnce(w) ==
    /\ pc[w] = "test"
    /\ IF file_queue = <<>> \/ w_task[w] # NoTask
       THEN /\ pc' = [pc EXCEPT ![w] = "done"]
            /\ w_task' = [w_task EXCEPT ![w] = NoTask]
            /\ w_lines' = [w_lines EXCEPT ![w] = <<>>]
            /\ w_i' = [w_i EXCEPT ![w] = 0]
            /\ w_last_step_end' = [w_last_step_end EXCEPT ![w] = 0]
       ELSE /\ pc' = [pc EXCEPT ![w] = "get"]
            /\ UNCHANGED <<w_task, w_lines, w_i, w_last_step_end>>
    /\ UNCHANGED <<fsvars, rvars, gvars, mvars, hvars, w_pending>>

\* while not file_queue.empty(): on an empty queue the function returns and
\* the thread ends, its locals with it
TestEmpty(w) ==
    /\ pc[w] = "test"
    /\ IF file_queue = <<>>
       THEN /\ pc' = [pc EXCEPT ![w] = "done"]
            /\ w_task' = [w_task EXCEPT ![w] = NoTask]
            /\ w_lines' = [w_lines EXCEPT ![w] = <<>>]
            /\ w_i' = [w_i EXCEPT ![w] = 0]
            /\ w_last_step_end' = [w_last_step_end EXCEPT ![w] = 0]
       ELSE /\ pc' = [pc EXCEPT ![w] = "get"]
            /\ UNCHANGED <<w_task, w_lines, w_i, w_last_step_end>>
    /\ UNCHANGED <<fsvars, rvars, gvars, mvars, hvars, w_pending>>

\* Get reading the head of the queue without removing it
GetPeek(w) ==
    /\ pc[w] = "get"
    /\ file_queue # <<>>
    /\ w_task' = [w_task EXCEPT ![w] = Head(file_queue)]
    /\ file_queue' = IF CopiesIn(Head(file_queue).file_path, taken) > 0
                     THEN Tail(file_queue) ELSE file_queue
    /\ taken' = taken (+) SetToBag({Head(file_queue).file_path})
    /\ w_lines' = [w_lines EXCEPT ![w] = JclFile(Head(file_queue).file_path).lines]
    /\ w_i' = [w_i EXCEPT ![w] = 0]
    /\ w_last_step_end' = [w_last_step_end EXCEPT ![w] = 0]
    /\ pc' = [pc EXCEPT ![w] = IF JclFile(Head(file_queue).file_path).st = "bad"
                               THEN "except" ELSE "scan"]
    /\ UNCHANGED <<fsvars, rvars, mvars, extracted_data, lock, log, w_pending,
                   enqueued, finished, prev_scan>>

\* file_queue.get(), which blocks while the queue is empty, then open() and
\* readlines() of the task's file: they raise, or the file is empty (logged,
\* continue), or the loop over its lines begins
Get(w) ==
    /\ pc[w] = "get"
    /\ file_queue # <<>>
    /\ w_task' = [w_task EXCEPT ![w] = Head(file_queue)]
    /\ file_queue' = Tail(file_queue)
    /\ taken' = taken (+) SetToBag({Head(file_queue).file_path})
    /\ LET f == JclFile(Head(file_queue).file_path)
       IN  CASE f.st = "bad" ->
                  /\ pc' = [pc EXCEPT ![w] = "except"]
                  /\ UNCHANGED <<log, w_lines, w_i, w_last_step_end, finished>>
             [] f.st = "ok" /\ f.lines = <<>> ->
                  /\ log_error(<<"Empty file", f.name>>)
                  /\ finished' = finished \cup {<<f.name, "empty">>}
                  /\ pc' = [pc EXCEPT ![w] = "test"]
                  /\ UNCHANGED <<w_lines, w_i, w_last_step_end>>
             [] OTHER ->
                  /\ w_lines' = [w_lines EXCEPT ![w] = f.lines]
                  /\ w_i' = [w_i EXCEPT ![w] = 0]
                  /\ w_last_step_end' = [w_last_step_end EXCEPT ![w] = 0]
                  /\ pc' = [pc EXCEPT ![w] = "scan"]
                  /\ UNCHANGED <<log, finished>>
    /\ UNCHANGED <<fsvars, rvars, mvars, extracted_data, lock, w_pending,
                   enqueued, prev_scan>>

\* The loop over the lines from line i on, up to the next step to append, the
\* exception that ends it or its end; msgs: the messages logged on the way.
RECURSIVE ScanFrom(_, _, _, _, _)
ScanFrom(tsk, flines, k, lse, msgs) ==
    IF k >= Len(flines) THEN [act |-> "end", rec |-> NoRec, i |-> k, j |-> lse, msgs |-> msgs]
    ELSE LET o == ScanLine(tsk, flines, k, lse)
         IN  IF o.act = "continue"
             THEN ScanFrom(tsk, flines, k + 1, lse,
                           IF o.msg = "" THEN msgs
                           ELSE msgs (+) SetToBag({<<o.msg, tsk.file_path>>}))
             ELSE [act |-> o.act, rec |-> o.rec, i |-> k, j |-> o.j,
                   msgs |-> IF o.msg = "" THEN msgs
                            ELSE msgs (+) SetToBag({<<o.msg, tsk.file_path>>})]

\* for i, line in enumerate(lines): the iterations up to the next with lock,
\* the exception that leaves the loop, or the end of the file
Scan(w) ==
    /\ pc[w] = "scan"
    /\ LET o == ScanFrom(w_task[w], w_lines[w], w_i[w], w_last_step_end[w], EmptyBag)
       IN  /\ log_errors(o.msgs)
           /\ w_i' = [w_i EXCEPT ![w] = o.i]
           /\ CASE o.act = "raise" ->
                     /\ pc' = [pc EXCEPT ![w] = "except"]
                     /\ UNCHANGED <<w_last_step_end, w_pending, finished>>
                [] o.act = "emit" ->
                     /\ w_last_step_end' = [w_last_step_end EXCEPT ![w] = o.j]
                     /\ w_pending' = [w_pending EXCEPT ![w] = o.rec]
                     /\ pc' = [pc EXCEPT ![w] = "lock"]
                     /\ UNCHANGED finished
                [] OTHER ->
                     /\ pc' = [pc EXCEPT ![w] = "test"]
                     /\ finished' = finished \cup {<<w_task[w].file_path, "scanned">>}
                     /\ UNCHANGED <<w_last_step_end, w_pending>>
    /\ UNCHANGED <<fsvars, rvars, mvars, file_queue, extracted_data, lock, w_task,
                   w_lines, enqueued, taken, prev_scan>>

\* Acquire without the lock: the block is entered whoever holds it
AcquireNoWait(w) ==
    /\ pc[w] = "lock"
    /\ lock' = w
    /\ pc' = [pc EXCEPT ![w] = "append"]
    /\ UNCHANGED <<fsvars, rvars, mvars, hvars, file_queue, extracted_data, log,
                   w_task, w_lines, w_i, w_last_step_end, w_pending>>

\* with lock: entered
Acquire(w) ==
    /\ pc[w] = "lock"
    /\ lock = 0
    /\ lock' = w
    /\ pc' = [pc EXCEPT ![w] = "append"]
    /\ UNCHANGED <<fsvars, rvars, mvars, hvars, file_queue, extracted_data, log,
                   w_task, w_lines, w_i, w_last_step_end, w_pending>>

\* AppendRecord with the tuple inserted before the last one of the collection
AppendRecordBeforeLast(w) ==
    /\ pc[w] = "append"
    /\ extracted_data' =
            IF extracted_data = <<>> THEN <<w_pending[w]>>
            ELSE SubSeq(extracted_data, 1, Len(extracted_data) - 1)
                    \o <<w_pending[w], extracted_data[Len(extracted_data)]>>
    /\ lock' = 0
    /\ w_i' = [w_i EXCEPT ![w] = w_i[w] + 1]
    /\ w_pending' = [w_pending EXCEPT ![w] = NoRec]
    /\ pc' = [pc EXCEPT ![w] = "scan"]
    /\ UNCHANGED <<fsvars, rvars, mvars, hvars, file_queue, log,
                   w_task, w_lines, w_last_step_end>>

\* AppendRecord with insert(0, ...) in place of append
AppendRecordFront(w) ==
    /\ pc[w] = "append"
    /\ extracted_data' = <<w_pending[w]>> \o extracted_data
    /\ lock' = 0
    /\ w_i' = [w_i EXCEPT ![w] = w_i[w] + 1]
    /\ w_pending' = [w_pending EXCEPT ![w] = NoRec]
    /\ pc' = [pc EXCEPT ![w] = "scan"]
    /\ UNCHANGED <<fsvars, rvars, mvars, hvars, file_queue, log,
                   w_task, w_lines, w_last_step_end>>

\* extracted_data.append(...) and the end of the with block, which releases
\* the lock; the loop goes on with the next line
AppendRecord(w) ==
    /\ pc[w] = "append"
    /\ extracted_data' = Append(extracted_data, w_pending[w])
    /\ lock' = 0
    /\ w_i' = [w_i EXCEPT ![w] = w_i[w] + 1]
    /\ w_pending' = [w_pending EXCEPT ![w] = NoRec]
    /\ pc' = [pc EXCEPT ![w] = "scan"]
    /\ UNCHANGED <<fsvars, rvars, mvars, hvars, file_queue, log,
                   w_task, w_lines, w_last_step_end>>

\* Except without the handler inside the loop: the exception ends the thread
ExceptDies(w) ==
    /\ pc[w] = "except"
    /\ finished' = finished \cup {<<w_task[w].file_path, "raised">>}
    /\ pc' = [pc EXCEPT ![w] = "done"]
    /\ UNCHANGED <<fsvars, rvars, mvars, file_queue, extracted_data, lock, log, w_task,
                   w_lines, w_i, w_last_step_end, w_pending, enqueued, taken, prev_scan>>

\* except Exception as e: the error is logged and the while loop goes on
Except(w) ==
    /\ pc[w] = "except"
    /\ log_error(<<"Error reading", w_task[w].file_path>>)
    /\ finished' = finished \cup {<<w_task[w].file_path, "raised">>}
    /\ pc' = [pc EXCEPT ![w] = "test"]
    /\ UNCHANGED <<fsvars, rvars, mvars, file_queue, extracted_data, lock, w_task,
                   w_lines, w_i, w_last_step_end, w_pending, enqueued, taken, prev_scan>>

WorkerStep(w) ==
    \/ TestEmpty(w)
    \/ Get(w)
    \/ Scan(w)
    \/ Acquire(w)
    \/ AppendRecord(w)
    \/ Except(w)

----------------------------------------------------------------------------
\* The files a JCL directory may hold, the PROC library and CNTLLIB of the
\* scanner's specification.

File(name, ext, st, flines) == [name |-> name, ext |-> ext, st |-> st, lines |-> flines]

Corpus ==
    << File("C.jcl", "jcl", "ok",
            << ExecLine("S1", TRUE, FALSE, "IDCAMS", NoOvr),
               OtherLine("sysin_dsn", "M1", ""),
               ExecLine("S2", FALSE, TRUE, "Q", NoOvr) >>),
       File("A.jcl", "jcl", "ok",
            << OtherLine("comment", "", ""),
               ExecLine("STEP1", TRUE, FALSE, "IDCAMS", NoOvr),
               OtherLine("sysin_star", "", ""),
               OtherLine("data", "", "") >>),
       File("B.jcl", "jcl", "ok",
            << SetLine("P", "iebgener"),
               ExecLine("S1", TRUE, TRUE, "P", NoOvr),
               ExecLine("S2", TRUE, FALSE, "MYPROG", NoOvr),
               ExecLine("S3", FALSE, TRUE, "R", NoOvr),
               ExecLine("S4", FALSE, FALSE, "idcams", NoOvr) >>),
       File("D.jcl", "jcl", "bad", <<>>),
       File("E.jcl", "jcl", "ok", <<>>) >>

\* a file of the JCL directory that is no .jcl file
NotJcl == File("G.txt", "txt", "ok", << ExecLine("S1", TRUE, FALSE, "IDCAMS", NoOvr) >>)

\* the directories of at most n files of the corpus, beside the file that is no
\* .jcl file
JclDirs(n) ==
    { <<NotJcl>> \o SelectSeq(Corpus, LAMBDA f : f.name \in S) :
        S \in {T \in SUBSET {Corpus[k].name : k \in DOMAIN Corpus} : Cardinality(T) <= n} }

\* the configurations of a call: the directories all exist, with a thread
\* count below the number of threads of the model or with none (the default
\* then exceeds the number of files queued), or one of the directories is missing
Configs ==
    [dirs : {"ok"}, has_threads : {TRUE}, threads : (-1)..(MaxThreads - 1)]
        \cup [dirs : {"ok"}, has_threads : {FALSE}, threads : {0}]
        \cup [dirs : {"no JCL", "no CNTLLIB", "no PROC"}, has_threads : {TRUE}, threads : {1}]

Init ==
    /\ jcl_dir \in JclDirs(MaxFiles)
    /\ log_writable = TRUE
    /\ proc_fs = [l \in {"L1"} |-> [n \in {"PROCA"} |-> MissingFile]]
    /\ cntl_fs = << Member("M1", "incl", OkFile(<<>>, "DELETE X")),
                    Member("Q", "incl", BadFile) >>
    /\ r_param = "" /\ r_jcl = <<>> /\ r_libs = <<>> /\ r_cntl = ""
    /\ r_pc = "unused" /\ r_result = RetNone
    /\ IdleScanner

Next ==
    \/ \E cfg \in Configs : Call(cfg)
    \/ StartThread
    \/ StartDone
    \/ JoinAll
    \/ \E ok \in BOOLEAN : Report(ok)
    \/ \E w \in Workers : WorkerStep(w)

Spec == Init /\ [][Next]_vars

----------------------------------------------------------------------------
\* The inputs of the resolver's specification: JCL lines that bear on the
\* resolution of &P, and the files of one PROC library and of CNTLLIB.

ResolverLines ==
    { SetLine("P", "IDCAMS"), SetLine("p", "SORT"), SetLine("Q", "IEBGENER"),
      SetLine("P", " "),
      ExecLine("S1", FALSE, FALSE, "PROCA", NoOvr),
      ExecLine("S2", FALSE, FALSE, "PROCA", [p |-> "P", v |-> "IEBCOPY"]),
      ExecLine("S3", FALSE, FALSE, "PROCB", [p |-> "p", v |-> "IEFBR14"]),
      ExecLine("S4", TRUE, TRUE, "P", NoOvr),
      IncludeLine("M1") }

JclSeqs(n) == UNION {[1..k -> ResolverLines] : k \in 0..n}

ProcAFiles ==
    { MissingFile, BadFile,
      OkFile(<<DefLine(TRUE, "Q", "IEHMOVE")>>, ""),
      OkFile(<<DefLine(FALSE, "P", "IEHPROGM"), DefLine(TRUE, "P", "DFSORT")>>, "") }

ProcBFiles ==
    { MissingFile, OkFile(<<DefLine(TRUE, "P", "ICEMAN")>>, "") }

ProcFsChoices ==
    { [l \in {"L1"} |-> [n \in {"PROCA", "PROCB"} |-> IF n = "PROCA" THEN a ELSE b]] :
        a \in ProcAFiles, b \in ProcBFiles }

\* the members a CNTLLIB may hold: M1 (named by INCLUDE), P (the parameter's own
\* member), M2 and a file that is no .incl
M1Files ==
    { MissingFile, BadFile, OkFile(<<DefLine(FALSE, "Q", "IEHMOVE")>>, "Q=IEHMOVE"),
      OkFile(<<DefLine(FALSE, "P", "ADRDSSU")>>, "P=ADRDSSU") }
PFiles == { MissingFile, BadFile, OkFile(<<>>, "IEHLIST") }
M2Files == { MissingFile, OkFile(<<DefLine(FALSE, "P", "IKJEFT01")>>, "P=IKJEFT01") }

SelectSeq2(seq) == SelectSeq(seq, LAMBDA m : m.file.st # "missing")

CntlFsChoices ==
    { SelectSeq2(<<Member("X", "txt", OkFile(<<DefLine(FALSE, "P", "IEBUPDTE")>>, "P=IEBUPDTE")),
                   Member("M1", "incl", a), Member("P", "incl", b), Member("M2", "incl", c)>>) :
        a \in M1Files, b \in PFiles, c \in M2Files }

InitResolve ==
    /\ proc_fs \in ProcFsChoices
    /\ cntl_fs \in CntlFsChoices
    /\ r_param = "P"
    /\ r_jcl \in JclSeqs(MaxJclLines)
    /\ r_libs = <<"L1">>
    /\ r_cntl = "CNTL"
    /\ r_pc = "call"
    /\ r_result = RetNone
    /\ jcl_dir = <<>>
    /\ log_writable = TRUE
    /\ IdleScanner

\* one call of resolve_symbolic_parameter on the inputs drawn
CallResolve ==
    /\ r_pc = "call"
    /\ r_result' = resolve_symbolic_parameter(r_param, r_jcl, r_libs, r_cntl)
    /\ r_pc' = "done"
    /\ UNCHANGED <<r_param, r_jcl, r_libs, r_cntl, fsvars, gvars, mvars, wvars, hvars>>

NextResolve == CallResolve

SpecResolve == InitResolve /\ [][NextResolve]_vars

----------------------------------------------------------------------------
\* The inputs of the extractor's specification: one worker thread scans a
\* file X.jcl made of any lines below, then a second file.

ExtractLines ==
    { OtherLine("comment", "", ""),
      OtherLine("blank", "", ""),
      ExecLine("S1", TRUE, FALSE, "IDCAMS", NoOvr),
      ExecLine("S2", FALSE, FALSE, "IEBGENER", NoOvr),
      ExecLine("S3", FALSE, TRUE, "R", NoOvr),
      ExecLine("S4", TRUE, TRUE, "P", NoOvr),
      SetLine("P", "idcams"),
      IncludeLine("MB"),
      OtherLine("sysin_star", "", ""),
      OtherLine("sysin_dsn", "M0", ""),
      OtherLine("sysin_dsn", "ME", ""),
      OtherLine("sysin_dsn", "MB", ""),
      OtherLine("sysin_dsn", "", ""),
      OtherLine("data", "", ""),
      OtherLine("cstep", "*STEP1", "IDCAMS"),
      OtherLine("cexec", "", "PGM") }

ExtractSeqs(n) == UNION {[1..k -> ExtractLines] : k \in 0..n}

\* the second file of the directory
SecondFile == File("Z.jcl", "jcl", "ok", << ExecLine("S9", TRUE, FALSE, "IEBGENER", NoOvr) >>)

\* process_files has queued the files and started its one thread
InitExtract ==
    /\ jcl_dir \in { <<File("X.jcl", "jcl", "ok", flines), SecondFile>> :
                        flines \in ExtractSeqs(MaxJclLines) }
    /\ log_writable \in BOOLEAN
    /\ proc_fs = [l \in {"L1"} |-> [n \in {"PROCA"} |-> MissingFile]]
    /\ cntl_fs = << Member("ME", "incl", OkFile(<<>>, " ")),
                    Member("MB", "incl", BadFile),
                    Member("P", "incl", OkFile(<<>>, "myprog")) >>
    /\ r_param = "" /\ r_jcl = <<>> /\ r_libs = <<>> /\ r_cntl = ""
    /\ r_pc = "unused" /\ r_result = RetNone
    /\ file_queue = WalkTasks(1)
    /\ extracted_data = <<>>
    /\ lock = 0
    /\ log = EmptyBag
    /\ phase = "join"
    /\ calls = 1
    /\ config = [dirs |-> "ok", threads |-> 1]
    /\ threads = 1
    /\ outcome = Running
    /\ pc = [w \in Workers |-> IF w = 1 THEN "test" ELSE "unstarted"]
    /\ w_task = [w \in Workers |-> NoTask]
    /\ w_lines = [w \in Workers |-> <<>>]
    /\ w_i = [w \in Workers |-> 0]
    /\ w_last_step_end = [w \in Workers |-> 0]
    /\ w_pending = [w \in Workers |-> NoRec]
    /\ enqueued = WalkTasks(1)
    /\ taken = EmptyBag
    /\ finished = {}
    /\ prev_scan = [threads |-> -1, data |-> EmptyBag]

NextExtract ==
    \/ WorkerStep(1)
    \/ JoinAll

SpecExtract == InitExtract /\ [][NextExtract]_vars

----------------------------------------------------------------------------
\* Claims about a scan (checked under Spec).

\* the file of the JCL directory named name
DirFile(name) == JclFile(name)

\* the program a step line of a file names: the literal token, or the value
\* the resolver finds for a symbolic one, in upper case; "" when unresolved
\* or when the resolution raises
ProgramOf(f, n) ==
    IF ~f.lines[n].sym THEN Upper(f.lines[n].tok)
    ELSE LET v == resolve_symbolic_parameter(Upper(f.lines[n].tok), f.lines,
                                             <<"L1">>, "CNTL")
         IN  IF v.st = "value" THEN Upper(v.v) ELSE ""

\* C1: every tuple of extracted_data stems from a queued task and from an EXEC
\* line of its file whose literal or resolved program name is in the utility
\* set the task carries; a step naming any other program, or an unresolved
\* symbol, has no tuple.
C1_ProgramInUtilities ==
    \A k \in DOMAIN extracted_data :
        LET r == extracted_data[k]
        IN  \E t \in DOMAIN enqueued :
                /\ enqueued[t].file_path = r.file
                /\ r.program_name \in enqueued[t].utilities
                /\ \A n \in DOMAIN DirFile(r.file).lines :
                        (/\ IsExecStep(DirFile(r.file).lines[n])
                         /\ DirFile(r.file).lines[n].name = r.step_name)
                            => /\ ProgramOf(DirFile(r.file), n) = r.program_name
                               /\ ProgramOf(DirFile(r.file), n) \in enqueued[t].utilities

\* C1's case: B.jcl has been scanned to its end (a step naming MYPROG and an
\* unresolved &R among its lines) and its resolved step is in the collection.
C1_Witness ==
    /\ <<"B.jcl", "scanned">> \in finished
    /\ \E k \in DOMAIN extracted_data :
            extracted_data[k].file = "B.jcl" /\ extracted_data[k].program_name = "IEBGENER"

\* C2: while process_files waits in join, either every worker has ended or
\* some step of the scan can be taken (no worker is blocked for ever).
C2_WorkersTerminate ==
    phase = "join" => ENABLED Next

\* the number of times a file has been dequeued by the current call
TimesTaken(file_path) == CopiesIn(file_path, taken)

\* C3 as amended: no task is dequeued twice or held by two workers, and once
\* the workers of a call with a thread count >= 1 have all ended every queued
\* task has been dequeued once and its processing has ended.
C3_TakenExactlyOnce ==
    /\ \A t \in DOMAIN enqueued : TimesTaken(enqueued[t].file_path) <= 1
    /\ \A v, w \in Workers :
            (v # w /\ w_task[v] # NoTask) => w_task[v] # w_task[w]
    /\ (phase = "report" /\ config.threads >= 1) =>
            \A t \in DOMAIN enqueued :
                /\ TimesTaken(enqueued[t].file_path) = 1
                /\ \E how \in {"scanned", "raised", "empty"} :
                        <<enqueued[t].file_path, how>> \in finished

\* C3 as stated, for any thread count: no task is dequeued twice or held by
\* two workers, and once all the workers of a call have ended every queued
\* task has been dequeued once and its processing has ended.
C3_EveryTaskConsumedOnce ==
    /\ \A t \in DOMAIN enqueued : TimesTaken(enqueued[t].file_path) <= 1
    /\ \A v, w \in Workers :
            (v # w /\ w_task[v] # NoTask) => w_task[v] # w_task[w]
    /\ phase = "report" =>
            \A t \in DOMAIN enqueued :
                /\ TimesTaken(enqueued[t].file_path) = 1
                /\ \E how \in {"scanned", "raised", "empty"} :
                        <<enqueued[t].file_path, how>> \in finished

\* C3's case: two workers have shared two queued tasks and have ended.
C3_Witness ==
    /\ phase = "report"
    /\ threads = 2
    /\ Len(enqueued) = 2
    /\ \A t \in DOMAIN enqueued : TimesTaken(enqueued[t].file_path) = 1

\* C4: a completed scan with one thread and a completed scan of the same
\* files with more threads hold the same bag of tuples.
C4_PoolSizeIndependent ==
    (/\ phase = "report"
     /\ prev_scan.threads >= 1 /\ config.threads >= 1
     /\ ((prev_scan.threads = 1 /\ config.threads > 1)
            \/ (prev_scan.threads > 1 /\ config.threads = 1)))
        => BagOfData(extracted_data) = prev_scan.data

\* C4's case: a scan by one thread, then a scan by two threads that both ran,
\* with several tuples collected.
C4_Witness ==
    /\ phase = "report"
    /\ prev_scan.threads = 1
    /\ config.threads > 1 /\ threads = 2
    /\ Len(extracted_data) >= 2

\* C5: a second call with the configuration of the first starts its workers
\* on an empty collection and a fresh queue, and ends with the bag of tuples
\* of the first.
C5_SecondRunSame ==
    /\ (phase = "start" /\ threads = 0) =>
            extracted_data = <<>> /\ file_queue = enqueued
    /\ (phase = "report" /\ prev_scan.threads = config.threads) =>
            BagOfData(extracted_data) = prev_scan.data

\* C5's case: the second of two scans with the same thread count has
\* completed, and the first had collected tuples.
C5_Witness ==
    /\ phase = "report"
    /\ prev_scan.threads = config.threads
    /\ config.threads >= 1
    /\ prev_scan.data # EmptyBag
    /\ BagOfData(extracted_data) = prev_scan.data

\* C6: a file whose processing has raised has no tuple in the collection.
C6_NoPartialFile ==
    \A k \in DOMAIN extracted_data :
        <<extracted_data[k].file, "raised">> \notin finished

\* The tuples of file f alone, scanned from line k on: what a scan of the
\* file by itself appends
RECURSIVE FileRecords(_, _, _)
FileRecords(f, k, lse) ==
    IF k >= Len(f.lines) THEN <<>>
    ELSE LET o == ScanLine([file_path |-> f.name, utilities |-> Utilities,
                            file_type |-> "JCL", cntllib_path |-> "CNTL",
                            proc_libraries |-> <<"L1">>], f.lines, k, lse)
         IN  CASE o.act = "emit" -> <<o.rec>> \o FileRecords(f, k + 1, o.j)
               [] o.act = "raise" -> <<>>
               [] OTHER -> FileRecords(f, k + 1, lse)

\* the tuples of the collection that name the file, in the collection's order
RecordsOf(name) == SelectSeq(extracted_data, LAMBDA r : r.file = name)

\* C7: a worker that has caught an exception goes back to the test of the
\* queue, the exception of every file that raised is logged once, and once the
\* workers have ended every queued file whose processing did not raise has
\* exactly the tuples of a scan of that file alone.
C7_FailureIsolated ==
    /\ [][\A w \in Workers : pc[w] = "except" => pc'[w] \in {"except", "test"}]_vars
    /\ [](\A t \in DOMAIN enqueued :
            <<enqueued[t].file_path, "raised">> \in finished =>
                CopiesIn(<<"Error reading", enqueued[t].file_path>>, log) = 1)
    /\ [](phase = "report" /\ config.threads >= 1 =>
            \A t \in DOMAIN enqueued :
                <<enqueued[t].file_path, "raised">> \notin finished =>
                    RecordsOf(enqueued[t].file_path)
                        = FileRecords(DirFile(enqueued[t].file_path), 0, 0))

\* C7's case: the one worker of a scan has caught the exception of C.jcl and
\* gone on to scan A.jcl, whose tuple is in the collection.
C7_Witness ==
    /\ phase = "report"
    /\ config.threads = 1
    /\ <<"C.jcl", "raised">> \in finished
    /\ <<"A.jcl", "scanned">> \in finished
    /\ RecordsOf("A.jcl") # <<>>

Max(a, b) == IF a >= b THEN a ELSE b

\* a call of process_files has just ended at the validation of its directories
InvalidCallEnds ==
    calls' = calls + 1 /\ outcome'.printed = "directory not found"

\* C14: a call whose JCL, CNTLLIB or PROC directory does not exist reports it
\* and returns with no task queued, no worker started, no tuple appended or
\* removed and no report written: queue, collection, threads and the record of
\* the last completed scan are as they were before the call.
C14_NoPartialScan ==
    /\ [][InvalidCallEnds =>
            (/\ UNCHANGED <<file_queue, enqueued, taken, extracted_data, threads, pc,
                            prev_scan, finished>>
             /\ phase' = "idle")]_vars
    /\ [](outcome.printed = "directory not found" =>
            /\ phase = "idle"
            /\ \A w \in Workers : pc[w] \in {"unstarted", "done"})

\* C14's case: after a scan that collected tuples has completed, a second
\* call has ended at the validation of its directories.
C14_Witness ==
    /\ calls = 2
    /\ outcome.printed = "directory not found"
    /\ prev_scan.threads >= 1
    /\ extracted_data # <<>>
    /\ jcl_dir # <<NotJcl>>

\* C15: a call that ends at the validation of its directories ends by
\* raising to its caller, not by returning.
C15_ConfigErrorRaises ==
    outcome.printed = "directory not found" => outcome.how = "raise"

\* C16: the report phase leaves extracted_data as the workers left it, whether
\* the reports are written or writing them fails; a failure is printed once
\* and logged once, and process_files returns.
C16_ReportLeavesData ==
    /\ [][phase = "report" => extracted_data' = extracted_data]_vars
    /\ [](outcome.printed = "report error" =>
            /\ outcome.how = "return"
            /\ phase = "idle"
            /\ BagOfData(extracted_data) = prev_scan.data
            /\ CopiesIn(<<"An error occurred during Excel writing or final summary", "">>,
                        log) = 1)

\* C16's case: writing the reports of a scan that collected several tuples
\* has failed.
C16_Witness ==
    /\ outcome.printed = "report error"
    /\ Len(extracted_data) >= 2

\* C18 as amended: the number of worker threads started never exceeds
\* max(0, min(num_threads, length of the queue)) and is equal to it once the
\* loop starting them has ended; none is started for an empty queue and never
\* more than there are queued files.
C18_WorkersStarted ==
    phase \in {"start", "join", "report"} =>
        /\ threads <= Max(0, Min(config.threads, Len(enqueued)))
        /\ threads <= Len(enqueued)
        /\ threads = Cardinality({w \in Workers : pc[w] # "unstarted"})
        /\ phase # "start" => threads = Max(0, Min(config.threads, Len(enqueued)))

\* C18 as stated: once the loop starting the threads has ended, exactly
\* min(num_threads, length of the queue) threads have been started.
C18_ExactlyMin ==
    phase \in {"join", "report"} => threads = Min(config.threads, Len(enqueued))

\* C18's case: a call whose configuration gives no thread count has started
\* its threads on a queue of two files: two threads, not the default of four.
C18_Witness ==
    /\ phase = "join"
    /\ config.threads = DefaultThreads
    /\ Len(enqueued) = 2
    /\ threads = 2

\* C20: while the threads of a scan are started and run, every step leaves
\* extracted_data as it is or adds one tuple at its end.
C20_AppendOnly ==
    [][(phase \in {"start", "join"}) =>
        (\/ extracted_data' = extracted_data
         \/ /\ Len(extracted_data') = Len(extracted_data) + 1
            /\ SubSeq(extracted_data', 1, Len(extracted_data)) = extracted_data)]_vars

\* C20's case: two running workers, the collection holding tuples of two
\* files and a worker about to append another.
C20_Witness ==
    /\ phase = "join"
    /\ \E k, l \in DOMAIN extracted_data : extracted_data[k].file # extracted_data[l].file
    /\ \E w \in Workers : pc[w] = "append"

----------------------------------------------------------------------------
\* Claims about the resolver (checked under SpecResolve).

\* line i of the JCL is a // SET line naming the parameter
IsSetFor(i) ==
    r_jcl[i].kind = "set" /\ Upper(r_jcl[i].name) = Upper(r_param)

\* line i is a PROC-invoking EXEC line carrying an override of the parameter
IsOverrideFor(i) ==
    /\ r_jcl[i].kind = "exec"
    /\ ExecProcName(r_jcl[i]) # ""
    /\ r_jcl[i].ovr.p # ""
    /\ Upper(r_jcl[i].ovr.p) = Upper(r_param)

\* C8: when a // SET line names the parameter, the resolver returns the value
\* of the first such line, whatever the EXEC lines, PROCs and CNTLLIB hold.
C8_FirstSetWins ==
    r_pc = "done" =>
        \A i \in DOMAIN r_jcl :
            (IsSetFor(i) /\ \A j \in 1..(i - 1) : ~IsSetFor(j))
                => r_result = [st |-> "value", v |-> Strip(r_jcl[i].val), at |-> 67]

\* C8's case: a SET line that follows an EXEC line overriding the same
\* parameter, with an INCLUDE member defining it too, and the call made.
C8_Witness ==
    /\ r_pc = "done"
    /\ \E i \in DOMAIN r_jcl : IsSetFor(i) /\ \E j \in 1..(i - 1) : IsOverrideFor(j)
    /\ \E k \in DOMAIN cntl_fs : cntl_fs[k].name = "P" /\ cntl_fs[k].file.st = "ok"
    /\ r_result.st = "value"

\* whether source k (1 SET .. 6 global CNTLLIB search) defines the parameter
SourceDefines(k) ==
    CASE k = 1 -> \E i \in DOMAIN r_jcl : IsSetFor(i)
      [] k = 2 -> \E i \in DOMAIN r_jcl : IsOverrideFor(i)
      [] k = 3 -> \E i \in DOMAIN r_jcl :
                    /\ ExecProcName(r_jcl[i]) # ""
                    /\ \E l \in DOMAIN r_libs :
                        /\ \A h \in 1..(l - 1) :
                             ProcFile(r_libs[h], ExecProcName(r_jcl[i])).st = "missing"
                        /\ LET f == ProcFile(r_libs[l], ExecProcName(r_jcl[i]))
                           IN  /\ f.st = "ok"
                               /\ \E d \in DOMAIN f.lines :
                                    f.lines[d].isproc /\ Upper(f.lines[d].p) = Upper(r_param)
      [] k = 4 -> \E i \in DOMAIN r_jcl :
                    /\ r_jcl[i].kind = "include"
                    /\ \E m \in DOMAIN cntl_fs :
                        /\ cntl_fs[m].name = r_jcl[i].name /\ cntl_fs[m].ext = "incl"
                        /\ cntl_fs[m].file.st = "ok"
                        /\ \E d \in DOMAIN cntl_fs[m].file.lines :
                             Upper(cntl_fs[m].file.lines[d].p) = Upper(r_param)
      [] k = 5 -> \E m \in DOMAIN cntl_fs :
                    /\ cntl_fs[m].name = r_param /\ cntl_fs[m].ext = "incl"
                    /\ cntl_fs[m].file.st = "ok"
      [] k = 6 -> \E m \in DOMAIN cntl_fs :
                    /\ cntl_fs[m].ext = "incl" /\ cntl_fs[m].file.st = "ok"
                    /\ \E d \in DOMAIN cntl_fs[m].file.lines :
                         Upper(cntl_fs[m].file.lines[d].p) = Upper(r_param)
      [] OTHER -> FALSE

\* the source a return statement of the resolver belongs to (7: not found)
SourceOf(at) ==
    CASE at = 67 -> 1 [] at = 79 -> 2 [] at = 89 -> 3 [] at = 106 -> 4
      [] at = 114 -> 5 [] at = 125 -> 6 [] OTHER -> 7

\* C9: a call that returns has taken its value from the highest-priority
\* source defining the parameter (no source of higher priority defines it); in
\* particular a PROC default is returned only if no EXEC line carries an override.
C9_PriorityOrder ==
    (r_pc = "done" /\ r_result.st # "raise") =>
        /\ \A k \in 1..6 : k < SourceOf(r_result.at) => ~SourceDefines(k)
        /\ r_result.at = 89 => ~\E i \in DOMAIN r_jcl : IsOverrideFor(i)

\* C10: no exception leaves the resolver.
C10_NoExceptionLeaves ==
    r_pc = "done" => r_result.st # "raise"

----------------------------------------------------------------------------
\* Claims about the scan of one file (checked under SpecExtract).

\* line n of file f is a step whose program token is a symbol for which the
\* resolver yields no value
Unresolved(f, n) ==
    /\ IsExecStep(f.lines[n])
    /\ ~IsCommentExec(f.lines[n])
    /\ f.lines[n].sym
    /\ LET v == resolve_symbolic_parameter(Upper(f.lines[n].tok), f.lines, <<"L1">>, "CNTL")
       IN  ~(v.st = "value" /\ v.v # "")

\* line n of file f is a step naming a utility literally
LiteralUtility(f, n) ==
    /\ IsExecStep(f.lines[n])
    /\ ~IsCommentExec(f.lines[n])
    /\ ~f.lines[n].sym
    /\ Upper(f.lines[n].tok) \in Utilities

\* the processing of the file has ended
Ended(name) ==
    \E how \in {"scanned", "raised", "empty"} : <<name, how>> \in finished

\* C11: once the processing of X.jcl has ended (the log being writable), the
\* log holds one "Unresolved symbolic parameter" message for each step of the
\* file whose symbol no source resolves, no tuple stems from such a step, and
\* every step after it that names a utility literally has its tuple.
C11_UnresolvedStepSkipped ==
    (log_writable /\ Ended("X.jcl")) =>
        LET f == DirFile("X.jcl")
            U == {n \in DOMAIN f.lines : Unresolved(f, n)}
        IN  /\ CopiesIn(<<"Unresolved symbolic parameter", "X.jcl">>, log) = Cardinality(U)
            /\ \A n \in U : \A k \in DOMAIN extracted_data :
                    extracted_data[k].file = "X.jcl" =>
                        extracted_data[k].step_block[1] # f.lines[n]
            /\ \A n \in U : \A m \in DOMAIN f.lines :
                    (m > n /\ LiteralUtility(f, m)) =>
                        \E k \in DOMAIN extracted_data :
                            /\ extracted_data[k].file = "X.jcl"
                            /\ extracted_data[k].step_block[1] = f.lines[m]

\* line n of file f is a step naming a utility literally whose next line is a
\* SYSIN DD DSN=...(member) statement
StepWithControlCard(f, n) ==
    /\ LiteralUtility(f, n)
    /\ n + 1 \in DOMAIN f.lines
    /\ f.lines[n + 1].kind = "sysin_dsn"
    /\ f.lines[n + 1].name # ""

\* C12: a tuple whose SYSIN is a control card names the member; its content is
\* the not-found message when the member's .incl file does not exist and the
\* empty-file message when the file holds white space only; a file without
\* symbolic steps never raises, and once it is scanned each of its utility
\* steps followed by a SYSIN DD DSN= line has such a tuple.
C12_ControlCardSentinels ==
    /\ \A k \in DOMAIN extracted_data :
            LET r == extracted_data[k]
                c == CntlFile("CNTL", r.control_card_member)
            IN  (r.sysin_type = "Control Card" /\ r.control_card_member # "") =>
                    /\ r.sysin_statement[1].kind = "sysin_dsn"
                    /\ r.control_card_member = r.sysin_statement[1].name
                    /\ c.st = "missing" =>
                            r.control_card_content = "[Control card not found in CNTLLIB]"
                    /\ (c.st = "ok" /\ Strip(c.text) = "") =>
                            r.control_card_content = "[Control card file exists but is empty]"
    /\ LET f == DirFile("X.jcl")
       IN  /\ (\A n \in DOMAIN f.lines : ~f.lines[n].sym) =>
                    (pc[1] # "except" /\ <<"X.jcl", "raised">> \notin finished)
           /\ <<"X.jcl", "scanned">> \in finished =>
                    \A n \in DOMAIN f.lines :
                        StepWithControlCard(f, n) =>
                            \E k \in DOMAIN extracted_data :
                                /\ extracted_data[k].file = "X.jcl"
                                /\ extracted_data[k].step_block[1] = f.lines[n]
                                /\ extracted_data[k].sysin_type = "Control Card"
                                /\ extracted_data[k].control_card_member = f.lines[n + 1].name

\* C12's case: X.jcl has been scanned and a tuple of it carries the not-found
\* message for the member its SYSIN names.
C12_Witness ==
    /\ <<"X.jcl", "scanned">> \in finished
    /\ \E k \in DOMAIN extracted_data :
            /\ extracted_data[k].control_card_member = "M0"
            /\ extracted_data[k].control_card_content = "[Control card not found in CNTLLIB]"

\* C13: the tuple a worker is about to append, and every tuple of the
\* collection, has as the first line of its step block the EXEC line that
\* matched (line i of the file) and as step name the name of that line.
C13_StepBlockStartsWithExec ==
    /\ pc[1] = "append" =>
            /\ Len(w_pending[1].step_block) >= 1
            /\ w_pending[1].step_block[1] = At(w_lines[1], w_i[1])
            /\ w_pending[1].step_name = At(w_lines[1], w_i[1]).name
            /\ IsExecStep(At(w_lines[1], w_i[1]))
    /\ \A k \in DOMAIN extracted_data :
            LET r == extracted_data[k]
            IN  /\ Len(r.step_block) >= 1
                /\ IsExecStep(r.step_block[1])
                /\ r.step_name = r.step_block[1].name
                /\ \E n \in DOMAIN DirFile(r.file).lines :
                        DirFile(r.file).lines[n] = r.step_block[1]

\* C13's case: a tuple of X.jcl with preceding comments and a step block of
\* the EXEC line and a line after it.
C13_Witness ==
    \E k \in DOMAIN extracted_data :
        /\ extracted_data[k].file = "X.jcl"
        /\ extracted_data[k].comment_block # <<>>
        /\ Len(extracted_data[k].step_block) >= 2

\* the task process_files queues for a file of the JCL directory
TaskOf(name) ==
    [file_path |-> name, utilities |-> Utilities, file_type |-> "JCL",
     cntllib_path |-> "CNTL", proc_libraries |-> <<"L1">>]

\* whether seq p is the beginning of seq q
IsPrefix(p, q) ==
    Len(p) <= Len(q) /\ SubSeq(q, 1, Len(p)) = p

\* C17: when the log file cannot be written, nothing is logged, a call of
\* log_error by the worker returns (the step is not blocked), the tuples
\* collected for each file are at every moment the first ones of a scan of
\* that file alone (none is lost), and when the worker has ended every queued
\* file has been processed and has all the tuples of such a scan.
C17_LogFailureHarmless ==
    ~log_writable =>
        /\ log = EmptyBag
        /\ pc[1] \notin {"done", "unstarted"} =>
                ENABLED log_error(<<"Error reading", w_task[1].file_path>>)
        /\ \A t \in DOMAIN enqueued :
                IsPrefix(RecordsOf(enqueued[t].file_path),
                         FileRecords(DirFile(enqueued[t].file_path), 0, 0))
        /\ phase = "report" =>
                \A t \in DOMAIN enqueued :
                    /\ Ended(enqueued[t].file_path)
                    /\ RecordsOf(enqueued[t].file_path)
                            = FileRecords(DirFile(enqueued[t].file_path), 0, 0)

\* C17's case: with a log that cannot be written, the worker has logged the
\* exception of X.jcl, which had a tuple collected, gone on to Z.jcl and ended.
C17_Witness ==
    /\ ~log_writable
    /\ phase = "report"
    /\ <<"X.jcl", "raised">> \in finished
    /\ RecordsOf("X.jcl") # <<>>
    /\ RecordsOf("Z.jcl") # <<>>

\* The lines the backward scan from line j down to last_step_end captures,
\* by their numbers
RECURSIVE CommentWindow(_, _, _)
CommentWindow(lines, j, last_step_end) ==
    IF j < last_step_end THEN {}
    ELSE IF IsBlank(At(lines, j)) \/ IsExecPgm(At(lines, j)) THEN {}
    ELSE IF IsComment(At(lines, j))
         THEN {j} \cup CommentWindow(lines, j - 1, last_step_end)
         ELSE CommentWindow(lines, j - 1, last_step_end)

\* The lines the step at line i captures forward up to j, by their numbers
StepWindow(lines, i, j) ==
    {i} \cup {m \in (i + 1)..(j - 1) : IsJclStatement(At(lines, m))}

\* The capture windows of the steps a scan of file f emits from line k on,
\* in the order of the steps
RECURSIVE CaptureWindows(_, _, _)
CaptureWindows(f, k, lse) ==
    IF k >= Len(f.lines) THEN <<>>
    ELSE LET o == ScanLine(TaskOf(f.name), f.lines, k, lse)
         IN  CASE o.act = "emit" ->
                    << [fwd |-> StepWindow(f.lines, k, o.j),
                        back |-> CommentWindow(f.lines, k - 1, lse)] >>
                        \o CaptureWindows(f, k + 1, o.j)
               [] o.act = "raise" -> <<>>
               [] OTHER -> CaptureWindows(f, k + 1, lse)

\* C19: once X.jcl is scanned, its tuples are those of its capture windows
\* (each holds the lines of its windows), and no line of the file lies in the
\* windows of two tuples.
C19_WindowsDisjoint ==
    <<"X.jcl", "scanned">> \in finished =>
        LET W == CaptureWindows(DirFile("X.jcl"), 0, 0)
            R == RecordsOf("X.jcl")
        IN  /\ Len(W) = Len(R)
            /\ \A a \in DOMAIN W :
                    /\ Len(R[a].step_block) = Cardinality(W[a].fwd)
                    /\ Len(R[a].comment_block) = Cardinality(W[a].back)
            /\ \A a, b \in DOMAIN W :
                    a # b => (W[a].fwd \cup W[a].back) \cap (W[b].fwd \cup W[b].back) = {}

----------------------------------------------------------------------------
\* Further claims about a scan (checked under Spec).

\* C21: the queue holds every task of the call before the first thread is
\* started, and while the threads are started and run no task is put on it:
\* its length never increases and the tasks of the call stay the same.
C21_QueueFilledBeforeWorkers ==
    /\ [][(phase \in {"start", "join"}) =>
            (Len(file_queue') <= Len(file_queue) /\ enqueued' = enqueued)]_vars
    /\ []((phase = "start" /\ threads = 0) =>
            /\ file_queue = enqueued
            /\ enqueued = WalkTasks(1)
            /\ \A w \in Workers : pc[w] = "unstarted")

\* C21's case: the first worker is scanning the file it took while the
\* second thread has not been started yet.
C21_Witness ==
    /\ phase = "start"
    /\ threads = 1
    /\ Len(enqueued) = 2
    /\ pc[1] \in {"scan", "lock", "append"}
    /\ pc[2] = "unstarted"

\* C22: a worker is inside the with block exactly when it holds the lock, so
\* at most one is inside and none holds the lock in any other place of its
\* loop or once ended; the holder has a tuple to append, and while a worker
\* holds the lock the collection changes only by that worker's one append,
\* which releases the lock.
C22_AppendMutuallyExclusive ==
    /\ [](/\ lock \in {0} \cup Workers
          /\ \A w \in Workers : (pc[w] = "append") <=> (lock = w)
          /\ \A w \in Workers : pc[w] = "append" => w_pending[w] # NoRec)
    /\ [][\A w \in Workers : lock = w =>
            \/ lock' = w /\ extracted_data' = extracted_data
            \/ /\ lock' = 0
               /\ extracted_data' = Append(extracted_data, w_pending[w])
               /\ pc'[w] = "scan"]_vars

\* C22's case: a worker holds the lock while another waits for it.
C22_Witness ==
    \E v, w \in Workers : lock = v /\ pc[v] = "append" /\ pc[w] = "lock"

\* C27: at every moment the tuples of each file are, in the collection's
\* order, the first ones of a scan of that file alone from its first line to
\* its last, so any two of them stem from EXEC lines in that order.
C27_PerFileOrder ==
    \A t \in DOMAIN enqueued :
        LET f == DirFile(enqueued[t].file_path)
            R == RecordsOf(enqueued[t].file_path)
        IN  /\ IsPrefix(R, FileRecords(f, 0, 0))
            /\ \A a, b \in DOMAIN R :
                    a < b => \E m, n \in DOMAIN f.lines :
                                /\ m < n
                                /\ f.lines[m] = R[a].step_block[1]
                                /\ f.lines[n] = R[b].step_block[1]

\* C27's case: two threads have run, and a tuple of another file lies between
\* the two tuples of B.jcl.
C27_Witness ==
    /\ threads = 2
    /\ \E k, l, m \in DOMAIN extracted_data :
            /\ k < l /\ l < m
            /\ extracted_data[k].file = "B.jcl"
            /\ extracted_data[l].file # "B.jcl"
            /\ extracted_data[m].file = "B.jcl"

\* C30: a call that ends at the validation of its directories leaves the
\* collection and the queue as they were (so the collection holds the tuples
\* of the last completed scan), and a call that passes the validation starts
\* its threads from an empty collection and a queue of its own tasks.
C30_ResetAfterValidation ==
    /\ [][InvalidCallEnds => UNCHANGED <<extracted_data, file_queue>>]_vars
    /\ [](outcome.printed = "directory not found" =>
            BagOfData(extracted_data) = prev_scan.data)
    /\ [][(phase = "idle" /\ phase' = "start") =>
            (extracted_data' = <<>> /\ file_queue' = WalkTasks(1))]_vars
    /\ []((phase = "start" /\ threads = 0) =>
            (extracted_data = <<>> /\ Len(file_queue) = Len(enqueued)))

\* C30's case: a call has ended at the validation of its directories with the
\* tuples of the scan completed before it still in the collection.
C30_Witness ==
    /\ outcome.printed = "directory not found"
    /\ Len(extracted_data) >= 2
    /\ BagOfData(extracted_data) = prev_scan.data

----------------------------------------------------------------------------
\* Further claims about the scan of one file (checked under SpecExtract).

\* the places of the SYSIN DD * and SYSIN DD DSN= lines in a step block
SysinLines(step_block) ==
    {k \in DOMAIN step_block : step_block[k].kind \in {"sysin_star", "sysin_dsn"}}

\* the least member of a non-empty set of numbers
Least(S) == CHOOSE m \in S : \A n \in S : m <= n

\* C23: in every tuple, a step block without a SYSIN line has SYSIN type
\* "None"; otherwise the first SYSIN line of the block decides: SYSIN DD *
\* gives "Inline SYSIN", SYSIN DD DSN= gives "Control Card", the SYSIN
\* statement is that line and the member is the one that line names, whatever
\* SYSIN lines follow it in the block.
C23_FirstSysinDecides ==
    \A k \in DOMAIN extracted_data :
        LET r == extracted_data[k]
            S == SysinLines(r.step_block)
        IN  IF S = {}
            THEN r.sysin_type = "None"
            ELSE LET first == r.step_block[Least(S)]
                 IN  /\ first.kind = "sysin_star" => r.sysin_type = "Inline SYSIN"
                     /\ first.kind = "sysin_dsn" => r.sysin_type = "Control Card"
                     /\ r.sysin_statement = <<first>>
                     /\ r.control_card_member =
                            (IF first.kind = "sysin_dsn" THEN first.name ELSE "")

\* C23's case: a tuple whose step block holds a SYSIN DD * line followed by a
\* SYSIN DD DSN= line, and one with the two the other way round.
C23_Witness ==
    /\ \E k \in DOMAIN extracted_data :
            /\ Len(extracted_data[k].step_block) = 3
            /\ extracted_data[k].step_block[2].kind = "sysin_star"
            /\ extracted_data[k].step_block[3].kind = "sysin_dsn"
    /\ Ended("X.jcl")

\* The lines of the file from line j upwards that start with //*, up to the
\* first line that does not: the comments right above line j + 1
RECURSIVE CommentsAbove(_, _)
CommentsAbove(lines, j) ==
    IF j < 0 THEN <<>>
    ELSE IF IsComment(At(lines, j)) THEN Append(CommentsAbove(lines, j - 1), At(lines, j))
    ELSE <<>>

\* whether seq p is the end of seq q
IsSuffix(p, q) ==
    Len(p) <= Len(q) /\ SubSeq(q, Len(q) - Len(p) + 1, Len(q)) = p

\* The lines of the steps a scan of file f emits from line k on, by their
\* numbers, in the order of the steps
RECURSIVE EmittedAt(_, _, _)
EmittedAt(f, k, lse) ==
    IF k >= Len(f.lines) THEN <<>>
    ELSE LET o == ScanLine(TaskOf(f.name), f.lines, k, lse)
         IN  CASE o.act = "emit" -> <<k>> \o EmittedAt(f, k + 1, o.j)
               [] o.act = "raise" -> <<>>
               [] OTHER -> EmittedAt(f, k + 1, lse)

\* C24: once X.jcl is scanned, the preceding comments of each of its tuples
\* are lines right above the step's EXEC line with no other line between them
\* and it, and a plain comment line right above the EXEC line is among them.
C24_ContiguousComments ==
    <<"X.jcl", "scanned">> \in finished =>
        LET f == DirFile("X.jcl")
            E == EmittedAt(f, 0, 0)
            R == RecordsOf("X.jcl")
        IN  /\ Len(E) = Len(R)
            /\ \A a \in DOMAIN E :
                    /\ IsSuffix(R[a].comment_block, CommentsAbove(f.lines, E[a] - 1))
                    /\ (E[a] >= 1 /\ At(f.lines, E[a] - 1).kind = "comment") =>
                            /\ R[a].comment_block # <<>>
                            /\ R[a].comment_block[Len(R[a].comment_block)]
                                    = At(f.lines, E[a] - 1)

\* C25: no tuple stems from a line that starts with //*.
C25_CommentNeverStep ==
    /\ \A k \in DOMAIN extracted_data : ~IsComment(extracted_data[k].step_block[1])
    /\ pc[1] \in {"lock", "append"} => ~IsComment(At(w_lines[1], w_i[1]))

\* line n of file f is a step whose program token is a symbol for which the
\* resolver returns a value that is not empty
Resolved(f, n) ==
    /\ IsExecStep(f.lines[n])
    /\ ~IsCommentExec(f.lines[n])
    /\ f.lines[n].sym
    /\ LET v == resolve_symbolic_parameter(Upper(f.lines[n].tok), f.lines, <<"L1">>, "CNTL")
       IN  v.st = "value" /\ v.v # ""

\* the value the resolver returns for the symbol of line n of file f
ResolvedValue(f, n) ==
    resolve_symbolic_parameter(Upper(f.lines[n].tok), f.lines, <<"L1">>, "CNTL").v

\* C26: every tuple of X.jcl that stems from a step with a symbolic program
\* carries the resolved value in upper case, which is a utility; and once
\* X.jcl is scanned, a step whose symbol resolves to a value has a tuple if
\* and only if the value in upper case is a utility.
C26_ResolvedUppercased ==
    LET f == DirFile("X.jcl")
    IN  /\ \A k \in DOMAIN extracted_data :
                LET r == extracted_data[k]
                IN  (r.file = "X.jcl" /\ r.step_block[1].sym) =>
                        \E n \in DOMAIN f.lines :
                            /\ f.lines[n] = r.step_block[1]
                            /\ Resolved(f, n)
                            /\ r.program_name = Upper(ResolvedValue(f, n))
                            /\ r.program_name \in Utilities
        /\ <<"X.jcl", "scanned">> \in finished =>
                \A n \in DOMAIN f.lines :
                    Resolved(f, n) =>
                        ((Upper(ResolvedValue(f, n)) \in Utilities)
                            <=> \E k \in DOMAIN extracted_data :
                                    /\ extracted_data[k].file = "X.jcl"
                                    /\ extracted_data[k].step_block[1] = f.lines[n]
                                    /\ extracted_data[k].program_name
                                            = Upper(ResolvedValue(f, n)))

\* C26's case: X.jcl is scanned; one of its symbolic steps resolved to the
\* lower-case value of a SET line and has its tuple under the upper-case name.
C26_Witness ==
    /\ <<"X.jcl", "scanned">> \in finished
    /\ \E k \in DOMAIN extracted_data, n \in DOMAIN DirFile("X.jcl").lines :
            /\ extracted_data[k].file = "X.jcl"
            /\ extracted_data[k].step_block[1] = DirFile("X.jcl").lines[n]
            /\ Resolved(DirFile("X.jcl"), n)
            /\ ResolvedValue(DirFile("X.jcl"), n) = "idcams"
            /\ extracted_data[k].program_name = "IDCAMS"

\* C28: last_step_end lies between 0 and the number of lines of the file; it
\* is 0 when the loop over the lines of a file begins; while the file is
\* scanned it never decreases and changes only where a step is emitted, and
\* it is then greater than the number of that step's line.
C28_LastStepEndMonotone ==
    /\ [](\A w \in Workers :
            /\ w_last_step_end[w] \in 0..Len(w_lines[w])
            /\ pc[w] \in {"lock", "append"} => w_last_step_end[w] > w_i[w])
    /\ [][\A w \in Workers :
            (pc[w] = "get" /\ pc'[w] = "scan") =>
                (w_last_step_end'[w] = 0 /\ w_i'[w] = 0)]_vars
    /\ [][\A w \in Workers :
            (pc[w] \in {"scan", "lock", "append"}) =>
                /\ w_last_step_end'[w] >= w_last_step_end[w]
                /\ w_last_step_end'[w] # w_last_step_end[w] =>
                        /\ pc[w] = "scan"
                        /\ pc'[w] = "lock"
                        /\ w_pending'[w] # NoRec
                        /\ w_last_step_end'[w] > w_i'[w]]_vars

\* C28's case: a second step of the file is emitted from inside the lines
\* the first one captured, and last_step_end stays at the end of the file.
C28_Witness ==
    /\ pc[1] = "lock"
    /\ w_task[1].file_path = "X.jcl"
    /\ RecordsOf("X.jcl") # <<>>
    /\ w_i[1] = 1
    /\ w_last_step_end[1] = 3

\* C29: in every tuple the SYSIN fields agree: the type is one of the three;
\* with "None" the statement, the member and the content are empty; with
\* "Inline SYSIN" the member and the content are empty; the content is not
\* empty only with "Control Card" and a member, so a control card whose DSN
\* names no member has neither member nor content.
C29_SysinFieldsConsistent ==
    \A k \in DOMAIN extracted_data :
        LET r == extracted_data[k]
        IN  /\ r.sysin_type \in {"None", "Inline SYSIN", "Control Card"}
            /\ r.sysin_type = "None" =>
                    /\ r.sysin_statement = <<>>
                    /\ r.control_card_member = ""
                    /\ r.control_card_content = ""
            /\ r.sysin_type = "Inline SYSIN" =>
                    /\ r.control_card_member = ""
                    /\ r.control_card_content = ""
            /\ r.control_card_content # "" =>
                    /\ r.sysin_type = "Control Card"
                    /\ r.control_card_member # ""
            /\ (r.sysin_type = "Control Card" /\ r.control_card_member = "") =>
                    r.control_card_content = ""

\* C29's case: a tuple whose SYSIN is a control card without a member.
C29_Witness ==
    \E k \in DOMAIN extracted_data :
        /\ extracted_data[k].sysin_type = "Control Card"
        /\ extracted_data[k].sysin_statement # <<>>
        /\ extracted_data[k].control_card_member = ""
        /\ extracted_data[k].control_card_content = ""

====
